---- MODULE Spec2Model ----
(***************************************************************************)
(* FoodieFind: the video-to-recommendation processing pipeline.            *)
(*                                                                         *)
(* The store (videos, restaurants, restaurant_recommendations) is shared   *)
(* by the request handlers of routes/processing.js.  Each handler is an    *)
(* async function: it runs atomically between two awaits, so the model     *)
(* has one action per stretch of code that ends in a store access.         *)
(* Strings are sequences of one-character strings, so that trim, ilike     *)
(* and split are computed, not assumed.                                    *)
(***************************************************************************)
EXTENDS Integers, Sequences, FiniteSets, TLC

VARIABLES
    videos,        \* table videos: video_id -> row (or NoRow)
    restaurants,   \* table restaurants: sequence of rows, id = position
    recs,          \* table restaurant_recommendations: set of rows
    handler,       \* the request handlers: each one's position and locals
    served,        \* the number of requests received so far
    overlap,       \* whether requests may overlap in this run of the server
    call,          \* a service function under test with its arguments
    ret            \* what that call returned

vars == <<videos, restaurants, recs, handler, served, overlap, call, ret>>

store == <<videos, restaurants, recs>>

---------------------------------------------------------------------------
(* Bounds of the model *)

MaxVideos == 2
MaxLimit == 2
MaxCands == 2
MaxOverlapCands == 1
MaxRestaurants == 2
MaxRequests == 3

(* Program constants *)

MinTranscriptLen == 50
MinDurationSeconds == 120
MinConfidence == 60
ShortsSeconds == 60
MinSuitableSeconds == 120
DefaultConfidence == 80

Workers == {"w1", "w2"}
VideoIds == 1..MaxVideos

\* Strings are sequences of characters; null and a failed call are sequences
\* no string equals.  Numbers are naturals; a null number is NoNumber.
Null == <<"null">>
Fail == <<"fail">>
NoNumber == 0 - 1
NoError == "none"
NaN == 0 - 2
NoRow == [absent |-> TRUE]
NoCall == [fn |-> "none"]
NoReturn == [done |-> FALSE]
NoDuration == [absent |-> TRUE]

---------------------------------------------------------------------------
(* Strings *)

Str(n, c) == [i \in 1..n |-> c]

Lower(c) ==
    CASE c = "P" -> "p"
      [] c = "R" -> "r"
      [] c = "M" -> "m"
      [] OTHER -> c

toLowerCase(s) == [i \in 1..Len(s) |-> Lower(s[i])]

includes(s, t) ==
    \E i \in 0..(Len(s) - Len(t)) : SubSeq(s, i + 1, i + Len(t)) = t

RECURSIVE trimStart(_)
trimStart(s) ==
    IF s # <<>> /\ Head(s) = " " THEN trimStart(Tail(s)) ELSE s

RECURSIVE trimEnd(_)
trimEnd(s) ==
    IF s # <<>> /\ s[Len(s)] = " " THEN trimEnd(SubSeq(s, 1, Len(s) - 1)) ELSE s

trim(s) == trimEnd(trimStart(s))

\* JavaScript truthiness of a string-or-null value
Truthy(s) == s # Null /\ s # <<>>

\* x || d
OrElse(x, d) == IF Truthy(x) THEN x ELSE d

\* SQL: column ILIKE '%pat%' (NULL never matches)
ilike(value, pat) ==
    value # Null /\ includes(toLowerCase(value), toLowerCase(pat))

---------------------------------------------------------------------------
(* Sample data *)

LongText == Str(MinTranscriptLen + 1, "x")
ShortText == <<"x">>
BlankText == <<" ">>
EmptyText == <<>>

Pho == <<"P", "h", "o">>
Pho9 == <<"p", "h", "o", " ", "9">>
Rome == <<"R">>

Names == {Pho, Pho9}
Locations == {Null, Rome}
Carbonara == <<"c">>
Gnocchi == <<"g">>
Dishes == {Carbonara, Gnocchi}

\* ISO-8601 durations as YouTube sends them: PT#H#M#S, parts optional.
\* -1 stands for an absent part; pt = FALSE is a string without "PT".
Duration(h, m, s) == [pt |-> TRUE, h |-> h, m |-> m, s |-> s]
PT45S == Duration(-1, -1, 45)
PT2M == Duration(-1, 2, -1)
PT3M == Duration(-1, 3, -1)
Garbage == [pt |-> FALSE, h |-> -1, m |-> -1, s |-> -1]

\* the duration and description of the sample videos
VideoProfiles ==
    {[duration |-> PT3M, description |-> <<"a">>],
     [duration |-> PT45S, description |-> <<"a">>],
     [duration |-> NoDuration, description |-> EmptyText]}

\* video 1 is a plain long video; the others vary
ProfilesOf(v) ==
    IF v = 1 THEN {[duration |-> PT3M, description |-> <<"a">>]} ELSE VideoProfiles

---------------------------------------------------------------------------
(* services/supabaseService.js: queries *)

\* A part of the duration regex: the digits when present, else 0  (parseInt(..) || 0)
Part(x) == IF x < 0 THEN 0 ELSE x

parseDuration(duration) ==
    IF duration = NoDuration THEN 0
    ELSE IF ~duration.pt THEN 0
    ELSE Part(duration.h) * 3600 + Part(duration.m) * 60 + Part(duration.s)

Rows == {v \in VideoIds : videos[v] # NoRow}

PendingIgnoringError(v) == videos[v] # NoRow /\ ~videos[v].processed

Pending(v) == videos[v] # NoRow /\ ~videos[v].processed /\ videos[v].processing_error = NoError

Failed(v) == videos[v] # NoRow /\ ~videos[v].processed /\ videos[v].processing_error # NoError

\* The rows of S, ordered by created_at, newest first when desc
RECURSIVE OrderByCreated(_, _)
OrderByCreated(S, desc) ==
    IF S = {} THEN <<>>
    ELSE LET v == CHOOSE x \in S : \A y \in S :
                      IF desc THEN videos[y].created_at <= videos[x].created_at
                              ELSE videos[x].created_at <= videos[y].created_at
         IN <<v>> \o OrderByCreated(S \ {v}, desc)

Limit(seq, n) == SubSeq(seq, 1, IF Len(seq) < n THEN Len(seq) ELSE n)

DurationOkAlways(v) == TRUE

\* The JavaScript filter of getUnprocessedVideos
DurationOk(v) ==
    IF videos[v].duration = NoDuration THEN TRUE
    ELSE parseDuration(videos[v].duration) > MinDurationSeconds

\* What a handler holds of a selected row: the fields the flow reads
Snapshot(v) == [video_id |-> v, transcript |-> videos[v].transcript,
                description |-> videos[v].description,
                processed |-> videos[v].processed]

Snapshots(seq) == [i \in 1..Len(seq) |-> Snapshot(seq[i])]

getUnprocessedVideos(limit) ==
    LET data == Limit(OrderByCreated({v \in Rows : Pending(v)}, TRUE), limit)
    IN Snapshots(SelectSeq(data, DurationOk))

\* reprocess-failed: processed = false, processing_error not null, limit;
\* no ORDER BY: rows come in table order
getFailedVideos(limit) ==
    Snapshots(Limit(OrderByCreated({v \in Rows : Failed(v)}, FALSE), limit))

\* GET /status: the first query selects only the rows whose processing_error
\* is not null; the three counts filter that result, total counts every row
statusReport ==
    LET stats == {v \in Rows : videos[v].processing_error # NoError}
    IN [total |-> Cardinality(Rows),
        processed |-> Cardinality({v \in stats : videos[v].processed}),
        failed |-> Cardinality({v \in stats : ~videos[v].processed
                                              /\ videos[v].processing_error # NoError}),
        pending |-> Cardinality({v \in stats : ~videos[v].processed
                                               /\ videos[v].processing_error = NoError})]

RestaurantIds == 1..Len(restaurants)

\* the filters of findRestaurantByName on one row
MatchesRow(row, name, city) ==
    /\ ilike(row.name, name)
    /\ (Truthy(city) => ilike(row.city, city))

MatchesCityAlways(r, name, city) ==
    /\ ilike(restaurants[r].name, name)
    /\ ilike(restaurants[r].city, city)

Matches(r, name, city) == MatchesRow(restaurants[r], name, city)

RECURSIVE Ascending(_)
Ascending(S) ==
    IF S = {} THEN <<>>
    ELSE LET m == CHOOSE x \in S : \A y \in S : x <= y
         IN <<m>> \o Ascending(S \ {m})

\* no ORDER BY: rows come in table order; limit(5)
findRestaurantByName(name, city) ==
    Limit(Ascending({r \in RestaurantIds : Matches(r, name, city)}), 5)

\* the same query on a given table
findRestaurantByNameIn(table, name, city) ==
    Limit(Ascending({r \in 1..Len(table) : MatchesRow(table[r], name, city)}), 5)

---------------------------------------------------------------------------
(* services/youtubeService.js: transcript acquisition *)

Ok(v) == [ok |-> TRUE, value |-> v]
Throw(e) == [ok |-> FALSE, error |-> e]

\* response.data.transcript of the fallback provider: Fail is a failed request,
\* Null a response without transcript, otherwise the (joined) text
getRapidApiTranscript(response) ==
    IF response = Fail THEN Throw("RapidAPI request failed")
    ELSE IF Truthy(response) THEN Ok(response)
    ELSE Throw("No transcript data in RapidAPI response")

\* the try block of getVideoTranscript
\* primary: Fail when fetchTranscript throws, otherwise the joined caption text
getYouTubeTranscript(primary) ==
    IF primary = Fail THEN Throw("YouTube fetch failed")
    ELSE IF Len(trim(primary)) > MinTranscriptLen THEN Ok(primary)
    ELSE Throw("YouTube transcript too short")

getVideoTranscriptEager(primary, response) ==
    LET first == IF primary = Fail THEN Throw("YouTube fetch failed")
                 ELSE IF Len(trim(primary)) > 0 THEN Ok(primary)
                 ELSE Throw("YouTube transcript too short")
    IN IF first.ok THEN first @@ [calls |-> <<"YouTube">>]
       ELSE LET second == getRapidApiTranscript(response)
            IN IF second.ok THEN second @@ [calls |-> <<"YouTube", "RapidAPI">>]
               ELSE Throw([message |-> "Failed to fetch video transcript from both sources",
                           youTube |-> first.error,
                           rapidApi |-> second.error])
                    @@ [calls |-> <<"YouTube", "RapidAPI">>]

\* the result, with the providers called, in order; the error of a double
\* failure carries the message of each
getVideoTranscript(primary, response) ==
    LET first == getYouTubeTranscript(primary)
    IN IF first.ok THEN first @@ [calls |-> <<"YouTube">>]
       ELSE LET second == getRapidApiTranscript(response)
            IN IF second.ok THEN second @@ [calls |-> <<"YouTube", "RapidAPI">>]
               ELSE Throw([message |-> "Failed to fetch video transcript from both sources",
                           youTube |-> first.error,
                           rapidApi |-> second.error])
                    @@ [calls |-> <<"YouTube", "RapidAPI">>]

PrimarySamples == {Fail, ShortText, LongText}

\* youtubeService.parseDuration: the same regex as the store's
youtubeParseDuration(duration) ==
    IF duration = NoDuration THEN 0
    ELSE IF ~duration.pt THEN 0
    ELSE Part(duration.h) * 3600 + Part(duration.m) * 60 + Part(duration.s)

nonFoodKeywords ==
    <<<<"m", "u", "s", "i", "c">>,
      <<"l", "i", "v", "e", " ", "s", "t", "r", "e", "a", "m">>,
      <<"s", "h", "o", "r", "t", "s">>,
      <<"c", "o", "m", "p", "i", "l", "a", "t", "i", "o", "n">>,
      <<"t", "r", "a", "i", "l", "e", "r">>,
      <<"a", "n", "n", "o", "u", "n", "c", "e", "m", "e", "n", "t">>>>

hasNonFoodKeyword(title) ==
    \E k \in 1..Len(nonFoodKeywords) : includes(title, nonFoodKeywords[k])

isVideoSuitableForProcessing(video) ==
    LET durationSeconds == youtubeParseDuration(video.duration)
        title == toLowerCase(video.title)
    IN IF durationSeconds <= ShortsSeconds THEN FALSE
       ELSE IF durationSeconds < MinSuitableSeconds THEN FALSE
       ELSE ~hasNonFoodKeyword(title)
ResponseSamples == {Fail, Null, LongText}

---------------------------------------------------------------------------
(* services/aiService.js: extraction *)

\* confidence scores are in hundredths
RawCandidate(name, location, dish, confidence, context) ==
    [name |-> name, location |-> location, dishMentioned |-> dish,
     confidenceScore |-> confidence, context |-> context]

KeepCandidate(r) ==
    /\ Truthy(r.name)
    /\ Len(trim(r.name)) > 0
    /\ (r.confidenceScore = NoNumber \/ r.confidenceScore = 0
        \/ r.confidenceScore >= MinConfidence)

FormatCandidate(r) ==
    [name |-> trim(r.name),
     location |-> OrElse(r.location, Null),
     dishMentioned |-> OrElse(r.dishMentioned, Null),
     context |-> OrElse(r.context, Null),
     confidenceScore |-> IF r.confidenceScore = NoNumber \/ r.confidenceScore = 0
                         THEN DefaultConfidence ELSE r.confidenceScore,
     mentionedAt |-> NoNumber]

\* What JSON.parse gives: null, an array, or an object whose `restaurants`
\* is an array (isArray) of candidates or something else
JsonNull == [type |-> "null"]
JsonArray == [type |-> "array"]
JsonObject(isArray, list) ==
    [type |-> "object", isArray |-> isArray, restaurants |-> list]

validateAndFormatRecommendations(parsed) ==
    IF parsed.type # "object" THEN <<>>
    ELSE IF ~parsed.isArray THEN <<>>
    ELSE LET kept == SelectSeq(parsed.restaurants, KeepCandidate)
         IN [i \in 1..Len(kept) |-> FormatCandidate(kept[i])]

\* completion: kind "error" when the endpoint call throws; otherwise the content:
\*   kind "json"    - JSON.parse(content) gives value
\*   kind "wrapped" - JSON.parse fails, the {...} span parses to value
\*   kind "badspan" - JSON.parse fails, the {...} span does not parse either
\*   kind "nobrace" - JSON.parse fails, no {...} span
\* requests: the calls of the chat-completions endpoint made

\* what JSON.parse gave: "restaurants" for an object with a restaurants array,
\* "object" for another object, "array", "null"; "none" when nothing parsed
ParsedShape(completion) ==
    IF completion.kind \notin {"json", "wrapped"} THEN "none"
    ELSE IF completion.value.type # "object" THEN completion.value.type
    ELSE IF completion.value.isArray THEN "restaurants"
    ELSE "object"

extractRestaurantRecommendationsLenient(completion) ==
    IF completion.kind = "error"
    THEN Throw("Failed to extract recommendations") @@ [requests |-> 1]
    ELSE IF completion.kind \in {"json", "wrapped"}
         THEN Ok(validateAndFormatRecommendations(completion.value)) @@ [requests |-> 1]
    ELSE Ok(<<>>) @@ [requests |-> 1]

extractRestaurantRecommendationsStrict(completion) ==
    IF completion.kind = "error"
    THEN Throw("Failed to extract recommendations") @@ [requests |-> 1]
    ELSE IF completion.kind \in {"json", "wrapped"}
         THEN IF ParsedShape(completion) = "restaurants"
              THEN Ok(validateAndFormatRecommendations(completion.value))
                   @@ [requests |-> 1]
              ELSE Throw("Failed to extract recommendations") @@ [requests |-> 1]
    ELSE Throw("Failed to extract recommendations") @@ [requests |-> 1]

extractRestaurantRecommendations(completion) ==
    IF completion.kind = "error"
    THEN Throw("Failed to extract recommendations") @@ [requests |-> 1]
    ELSE IF completion.kind \in {"json", "wrapped"}
         THEN Ok(validateAndFormatRecommendations(completion.value)) @@ [requests |-> 1]
    ELSE Throw("Failed to extract recommendations") @@ [requests |-> 1]

---------------------------------------------------------------------------
(* services/timestampService.js: timestamp reconciliation *)

RECURSIVE split(_)
split(s) ==
    IF \A i \in 1..Len(s) : s[i] # " " THEN <<s>>
    ELSE LET i == CHOOSE k \in 1..Len(s) :
                      s[k] = " " /\ \A j \in 1..(k - 1) : s[j] # " "
         IN <<SubSeq(s, 1, i - 1)>> \o split(SubSeq(s, i + 1, Len(s)))

RECURSIVE join(_)
join(parts) ==
    IF parts = <<>> THEN <<>>
    ELSE IF Len(parts) = 1 THEN parts[1]
    ELSE parts[1] \o <<" ">> \o join(Tail(parts))

LongerThan3(w) == Len(w) > 3
LongerThan2(w) == Len(w) > 2

SearchTerms(restaurantName, context) ==
    SelectSeq(<<toLowerCase(restaurantName)>>
              \o split(toLowerCase(restaurantName))
              \o SelectSeq(split(toLowerCase(OrElse(context, <<>>))), LongerThan3),
              LongerThan2)

RECURSIVE Score(_, _, _)
Score(windowText, terms, nameLower) ==
    IF terms = <<>> THEN 0
    ELSE (IF includes(windowText, Head(terms))
          THEN 1 + (IF Head(terms) = nameLower THEN 2 ELSE 0)
          ELSE 0) + Score(windowText, Tail(terms), nameLower)

WindowText(transcriptArray, i) ==
    LET lo == IF i - 2 < 1 THEN 1 ELSE i - 2
        hi == IF i + 2 > Len(transcriptArray) THEN Len(transcriptArray) ELSE i + 2
    IN join([k \in 1..(hi - lo + 1) |-> toLowerCase(transcriptArray[lo + k - 1].text)])

\* Math.floor(entry.offset / 1000): NaN when the entry has no offset
Seconds(offset) == IF offset = NoNumber THEN NaN ELSE offset \div 1000

RECURSIVE BestMatch(_, _, _, _, _)
BestMatch(transcriptArray, terms, nameLower, i, best) ==
    IF i > Len(transcriptArray) THEN best
    ELSE LET score == Score(WindowText(transcriptArray, i), terms, nameLower)
         IN BestMatch(transcriptArray, terms, nameLower, i + 1,
                      IF score > best.score
                      THEN [score |-> score,
                            match |-> Seconds(transcriptArray[i].offset)]
                      ELSE best)

findRestaurantTimestamp(transcriptArray, restaurantName, context) ==
    IF transcriptArray = <<>> THEN NoNumber
    ELSE LET best == BestMatch(transcriptArray,
                               SearchTerms(restaurantName, context),
                               toLowerCase(restaurantName), 1,
                               [score |-> 0, match |-> NoNumber])
         IN IF best.score >= 2 THEN best.match ELSE NoNumber

enhanceRecommendationsOrNothing(fetched, aiRecommendations) ==
    LET transcriptArray == IF fetched.ok THEN fetched.value ELSE <<>>
    IN IF transcriptArray = <<>> THEN aiRecommendations
       ELSE IF \E i \in 1..Len(transcriptArray) : transcriptArray[i].text = Null
            THEN <<>>
       ELSE [i \in 1..Len(aiRecommendations) |->
                [aiRecommendations[i] EXCEPT !.mentionedAt =
                    findRestaurantTimestamp(transcriptArray,
                                            aiRecommendations[i].name,
                                            aiRecommendations[i].context)]]

\* fetched: not ok when fetchTranscript throws (getTranscriptWithTimestamps then
\* returns []), otherwise the caption entries; an entry without text makes
\* findRestaurantTimestamp throw, which the catch block turns into the input
enhanceRecommendationsWithTimestamps(fetched, aiRecommendations) ==
    LET transcriptArray == IF fetched.ok THEN fetched.value ELSE <<>>
    IN IF transcriptArray = <<>> THEN aiRecommendations
       ELSE IF \E i \in 1..Len(transcriptArray) : transcriptArray[i].text = Null
            THEN aiRecommendations
       ELSE [i \in 1..Len(aiRecommendations) |->
                [aiRecommendations[i] EXCEPT !.mentionedAt =
                    findRestaurantTimestamp(transcriptArray,
                                            aiRecommendations[i].name,
                                            aiRecommendations[i].context)]]

---------------------------------------------------------------------------
(* routes/processing.js: the handlers' locals *)

\* pc        where the handler is suspended
\* op        the route it serves: "single", "batch", "reprocess", "add"
\* arg       the video id or the limit of the request
\* pulled    the rows its query returned (for single and add: the one video)
\* idx       position in pulled of the video being processed
\* text      `transcript` of processVideoRecommendations
\* cands     `recommendations`
\* ri        position in cands of the candidate being persisted
\* found     `restaurant` (its id; 0 when none)
\* done      `processedRecommendations`
\* err       the message of the error a catch block is handling
\* results   `results` of batch and reprocess-failed
\* resp      the response sent
\* resolved  the (name, city, restaurant id) resolutions of this request
\* parsed    what the completion of the current video parsed to
NoResults == [processed |-> 0, failed |-> 0, errors |-> <<>>, videos_processed |-> <<>>]
NoResp == [status |-> 0]

Idle == [pc |-> "idle", op |-> "none", arg |-> 0, pulled |-> <<>>, idx |-> 0,
         text |-> Null, cands |-> <<>>, ri |-> 0, found |-> 0, done |-> <<>>,
         err |-> NoError, results |-> NoResults, resp |-> NoResp,
         resolved |-> {}, parsed |-> "none"]

Cur(w) == handler[w].pulled[handler[w].idx]
Cand(w) == handler[w].cands[handler[w].ri]

NewRow(details, created) ==
    [processed |-> FALSE, processing_error |-> NoError, transcript |-> Null,
     description |-> details.description, duration |-> details.duration,
     created_at |-> created]

\* the store holds the videos synced so far, none processed yet
Init ==
    /\ \E n \in 0..MaxVideos : \E details \in [1..n -> VideoProfiles] :
          /\ \A v \in 1..n : details[v] \in ProfilesOf(v)
          /\ videos = [v \in VideoIds |->
                          IF v <= n THEN NewRow(details[v], v) ELSE NoRow]
    /\ restaurants = <<>>
    /\ recs = {}
    /\ handler = [w \in Workers |-> Idle]
    /\ served = 0
    /\ overlap = FALSE
    /\ call = NoCall
    /\ ret = NoReturn

\* supabaseService.updateVideo on an existing row
updateVideo(table, videoId, updates) ==
    [table EXCEPT ![videoId] =
        [f \in DOMAIN @ |-> IF f \in DOMAIN updates THEN updates[f] ELSE @[f]]]

\* handler w's locals with the fields of `changes` replaced
Set(w, changes) ==
    handler' = [handler EXCEPT ![w] =
        [f \in DOMAIN @ |-> IF f \in DOMAIN changes THEN changes[f] ELSE @[f]]]

FlowLocals == [text |-> Null, cands |-> <<>>, ri |-> 0, found |-> 0,
               done |-> <<>>, err |-> NoError]

\* the locals of a handler whose response is `response`
Responded(response) == [pc |-> "responded", resp |-> response] @@ FlowLocals

\* the first step on a video: reprocess-failed clears the error first
FirstStep(op) == IF op = "reprocess" THEN "clear" ELSE "acquire"

---------------------------------------------------------------------------
(* Environment: what the external services answer *)

\* the i-th restaurant of a completion mentions the i-th dish
DishAt(i) == IF i = 1 THEN Carbonara ELSE Gnocchi

CandidateKeys == {<<Pho, Rome>>, <<Pho, Null>>}

\* the restaurant lists of the sample completions; they are shorter in the
\* runs where requests overlap
CandidateLists ==
    UNION {{[i \in 1..n |-> RawCandidate(k[i][1], k[i][2], DishAt(i), 90, Null)] :
               k \in [1..n -> CandidateKeys]} :
           n \in 0..(IF overlap THEN MaxOverlapCands ELSE MaxCands)}
    \cup {<<RawCandidate(Pho, Rome, Carbonara, 50, Null)>>}

FlowCompletions ==
    {[kind |-> "error"], [kind |-> "nobrace"]}
    \cup {[kind |-> "json", value |-> JsonObject(TRUE, l)] : l \in CandidateLists}
    \cup {[kind |-> "json", value |-> v] :
              v \in {JsonNull, JsonArray, JsonObject(FALSE, <<>>)}}

FlowCaptions ==
    {[ok |-> TRUE, value |-> <<[text |-> Pho9, offset |-> 7000]>>]}

---------------------------------------------------------------------------
(* routes/processing.js: POST /video/:videoId *)

\* an idle handler takes the next request
Accept(w) ==
    /\ handler[w].pc = "idle"
    /\ overlap \/ \A o \in Workers : handler[o].pc = "idle"
    /\ served < MaxRequests
    /\ served' = served + 1
    /\ UNCHANGED <<overlap, call, ret>>

AlreadyProcessedIgnored(video) == FALSE

AlreadyProcessed(video) == video.processed

StartSingle(w, v) ==
    /\ Accept(w)
    /\ UNCHANGED store
    /\ IF videos[v] = NoRow
       THEN Set(w, Responded([status |-> 404]) @@ [op |-> "single", arg |-> v])
       ELSE IF AlreadyProcessed(Snapshot(v))
       THEN Set(w, Responded([status |-> 400]) @@ [op |-> "single", arg |-> v])
       ELSE Set(w, [pc |-> "acquire", op |-> "single", arg |-> v,
                    pulled |-> <<Snapshot(v)>>, idx |-> 1])

(* POST /videos/batch *)

StartBatch(w, limit) ==
    /\ Accept(w)
    /\ UNCHANGED store
    /\ LET unprocessedVideos == getUnprocessedVideos(limit)
       IN IF Len(unprocessedVideos) = 0
          THEN Set(w, Responded([status |-> 200, total |-> 0, processed |-> 0,
                                 failed |-> 0, errors |-> <<>>,
                                 videos_processed |-> <<>>])
                      @@ [op |-> "batch", arg |-> limit])
          ELSE Set(w, [pc |-> "acquire", op |-> "batch", arg |-> limit,
                       pulled |-> unprocessedVideos, idx |-> 1])

(* POST /reprocess-failed *)

StartReprocess(w, limit) ==
    /\ Accept(w)
    /\ UNCHANGED store
    /\ LET failedVideos == getFailedVideos(limit)
       IN IF Len(failedVideos) = 0
          THEN Set(w, Responded([status |-> 200, total |-> 0, processed |-> 0,
                                 failed |-> 0, errors |-> <<>>,
                                 videos_processed |-> <<>>])
                      @@ [op |-> "reprocess", arg |-> limit])
          ELSE Set(w, [pc |-> "clear", op |-> "reprocess", arg |-> limit,
                       pulled |-> failedVideos, idx |-> 1])

\* Clear previous error
ClearError(w) ==
    /\ handler[w].pc = "clear"
    /\ UNCHANGED <<served, overlap, call, ret>>
    /\ videos' = updateVideo(videos, Cur(w).video_id, [processing_error |-> NoError])
    /\ UNCHANGED <<restaurants, recs>>
    /\ Set(w, [pc |-> "acquire"])

(* POST /add-and-process *)

\* videoUrl missing, or no video id in it
AddBadUrl(w) ==
    /\ Accept(w)
    /\ UNCHANGED store
    /\ Set(w, Responded([status |-> 400]) @@ [op |-> "add", arg |-> 0])

StartAdd(w, v) ==
    /\ Accept(w)
    /\ UNCHANGED store
    /\ IF videos[v] # NoRow
       THEN Set(w, Responded([status |-> 409]) @@ [op |-> "add", arg |-> v])
       ELSE Set(w, [pc |-> "create_video", op |-> "add", arg |-> v])

\* getVideoDetails, the influencer lookup, then createVideo; video_id is UNIQUE
CreateVideo(w) ==
    /\ handler[w].pc = "create_video"
    /\ UNCHANGED <<served, overlap, call, ret>>
    /\ UNCHANGED <<restaurants, recs>>
    /\ \/ /\ UNCHANGED videos
          /\ Set(w, [pc |-> "catch", err |-> "Failed to fetch video details"])
       \/ /\ videos[handler[w].arg] # NoRow
          /\ UNCHANGED videos
          /\ Set(w, [pc |-> "catch", err |-> "Failed to create video"])
       \/ /\ videos[handler[w].arg] = NoRow
          /\ \E details \in ProfilesOf(handler[w].arg) :
                LET v == handler[w].arg
                    row == NewRow(details, Cardinality(Rows) + 1)
                IN /\ videos' = [videos EXCEPT ![v] = row]
                   /\ Set(w, [pc |-> "acquire", idx |-> 1,
                              pulled |-> <<[video_id |-> v,
                                            transcript |-> row.transcript,
                                            description |-> row.description,
                                            processed |-> row.processed]>>])

---------------------------------------------------------------------------
(* routes/processing.js: processVideoRecommendations *)

Blank(t) == ~Truthy(t) \/ Len(trim(t)) = 0

\* `transcript` after the acquisition block: the stored transcript, else the
\* fetched one, else (the fetch threw) the description
AcquiredText(video, fetched) ==
    IF Truthy(video.transcript) THEN video.transcript
    ELSE IF fetched.ok THEN fetched.value
    ELSE OrElse(video.description, <<>>)

ContentTextHardFail(video, fetched) ==
    IF Truthy(video.transcript) THEN video.transcript
    ELSE IF fetched.ok THEN fetched.value
    ELSE <<>>

\* If transcript is still empty, use description
ContentText(video, fetched) ==
    IF Blank(AcquiredText(video, fetched))
    THEN OrElse(video.description, <<>>)
    ELSE AcquiredText(video, fetched)

Acquire(w) ==
    /\ handler[w].pc = "acquire"
    /\ UNCHANGED <<served, overlap, call, ret>>
    /\ UNCHANGED <<restaurants, recs>>
    /\ \E primary \in PrimarySamples, response \in ResponseSamples :
          LET video == Cur(w)
              fetched == getVideoTranscript(primary, response)
              content == ContentText(video, fetched)
          IN /\ IF ~Truthy(video.transcript) /\ fetched.ok
                THEN videos' = updateVideo(videos, video.video_id,
                                           [transcript |-> fetched.value])
                ELSE UNCHANGED videos
             /\ IF Blank(content)
                THEN Set(w, [pc |-> "catch",
                             err |-> "No transcript or description available for processing"])
                ELSE Set(w, [pc |-> "extract", text |-> content])

\* the step after candidate ri: the next candidate, or marking the video
AfterCandidate(w) ==
    IF handler[w].ri < Len(handler[w].cands)
    THEN [pc |-> "find", ri |-> handler[w].ri + 1, found |-> 0]
    ELSE [pc |-> "mark", found |-> 0]

SkipCandidateAbort(w) == [pc |-> "mark", found |-> 0]

\* catch: Continue with other recommendations
SkipCandidate(w) == AfterCandidate(w)

Extract(w) ==
    /\ handler[w].pc = "extract"
    /\ UNCHANGED <<served, overlap, call, ret>>
    /\ UNCHANGED store
    /\ \E completion \in FlowCompletions, captions \in FlowCaptions :
          LET extracted == extractRestaurantRecommendations(completion)
          IN IF ~extracted.ok
             THEN Set(w, [pc |-> "catch", err |-> extracted.error, text |-> Null,
                          parsed |-> ParsedShape(completion)])
             ELSE LET recommendations ==
                          enhanceRecommendationsWithTimestamps(captions, extracted.value)
                  IN Set(w, [pc |-> IF recommendations = <<>> THEN "mark" ELSE "find",
                             cands |-> recommendations,
                             ri |-> IF recommendations = <<>> THEN 0 ELSE 1,
                             text |-> Null,
                             parsed |-> ParsedShape(completion)])

FindRestaurantMerging(w) ==
    /\ handler[w].pc = "find"
    /\ UNCHANGED <<served, overlap, call, ret>>
    /\ UNCHANGED <<videos, recs>>
    /\ \/ /\ UNCHANGED restaurants
          /\ Set(w, SkipCandidate(w))
       \/ LET matches == findRestaurantByName(Cand(w).name, Cand(w).location)
          IN IF Len(matches) > 0
             THEN /\ restaurants' = [restaurants EXCEPT ![matches[1]] =
                                         [@ EXCEPT !.city = Cand(w).location]]
                  /\ Set(w, [pc |-> "link", found |-> matches[1],
                             resolved |-> handler[w].resolved
                                          \cup {[name |-> Cand(w).name,
                                                  city |-> Cand(w).location,
                                                  id |-> matches[1]]}])
             ELSE /\ UNCHANGED restaurants
                  /\ Set(w, [pc |-> "create"])

\* Try to find existing restaurant; a failed query skips the candidate
FindRestaurant(w) ==
    /\ handler[w].pc = "find"
    /\ UNCHANGED <<served, overlap, call, ret>>
    /\ UNCHANGED store
    /\ \/ Set(w, SkipCandidate(w))
       \/ LET matches == findRestaurantByName(Cand(w).name, Cand(w).location)
          IN IF Len(matches) > 0
             THEN Set(w, [pc |-> "link", found |-> matches[1],
                          resolved |-> handler[w].resolved
                                       \cup {[name |-> Cand(w).name,
                                               city |-> Cand(w).location,
                                               id |-> matches[1]]}])
             ELSE Set(w, [pc |-> "create"])

RestaurantRow(recommendation) ==
    [name |-> recommendation.name, city |-> recommendation.location]

\* the restaurants table after the loop over the recommendations, when no
\* query fails: each one reuses the first match or inserts its row
RECURSIVE resolveRecommendations(_, _)
resolveRecommendations(table, recommendations) ==
    IF recommendations = <<>> THEN table
    ELSE LET recommendation == Head(recommendations)
             matches == findRestaurantByNameIn(table, recommendation.name,
                                               recommendation.location)
         IN resolveRecommendations(
                IF Len(matches) > 0 THEN table
                ELSE Append(table, RestaurantRow(recommendation)),
                Tail(recommendations))

CreateRestaurantRechecked(w) ==
    /\ handler[w].pc = "create"
    /\ UNCHANGED <<served, overlap, call, ret>>
    /\ UNCHANGED <<videos, recs>>
    /\ \/ /\ UNCHANGED restaurants
          /\ Set(w, SkipCandidate(w))
       \/ LET matches == findRestaurantByName(Cand(w).name, Cand(w).location)
          IN IF Len(matches) > 0
             THEN /\ UNCHANGED restaurants
                  /\ Set(w, [pc |-> "link", found |-> matches[1],
                             resolved |-> handler[w].resolved
                                          \cup {[name |-> Cand(w).name,
                                                  city |-> Cand(w).location,
                                                  id |-> matches[1]]}])
             ELSE /\ Len(restaurants) < MaxRestaurants
                  /\ restaurants' = Append(restaurants, RestaurantRow(Cand(w)))
                  /\ Set(w, [pc |-> "link", found |-> Len(restaurants) + 1,
                             resolved |-> handler[w].resolved
                                          \cup {[name |-> Cand(w).name,
                                                  city |-> Cand(w).location,
                                                  id |-> Len(restaurants) + 1]}])

CreateRestaurantUnchecked(w) ==
    /\ handler[w].pc = "create"
    /\ UNCHANGED <<served, overlap, call, ret>>
    /\ UNCHANGED <<videos, recs>>
    /\ UNCHANGED restaurants
    /\ Set(w, [pc |-> "link", found |-> Len(restaurants) + 1])

\* Create new restaurant; a failed insert skips the candidate
CreateRestaurant(w) ==
    /\ handler[w].pc = "create"
    /\ UNCHANGED <<served, overlap, call, ret>>
    /\ UNCHANGED <<videos, recs>>
    /\ \/ /\ UNCHANGED restaurants
          /\ Set(w, SkipCandidate(w))
       \/ /\ Len(restaurants) < MaxRestaurants
          /\ restaurants' = Append(restaurants, RestaurantRow(Cand(w)))
          /\ Set(w, [pc |-> "link", found |-> Len(restaurants) + 1,
                     resolved |-> handler[w].resolved
                                  \cup {[name |-> Cand(w).name,
                                          city |-> Cand(w).location,
                                          id |-> Len(restaurants) + 1]}])

RecommendationRow(video, restaurantId, recommendation) ==
    [video_id |-> video.video_id,
     restaurant_id |-> restaurantId,
     confidence_score |-> recommendation.confidenceScore,
     dish_mentioned |-> recommendation.dishMentioned,
     mentioned_at_timestamp |-> recommendation.mentionedAt]

UniqueViolationNever(row) == FALSE

\* UNIQUE(video_id, restaurant_id)
UniqueViolation(row) ==
    \E e \in recs : e.video_id = row.video_id /\ e.restaurant_id = row.restaurant_id

\* Create recommendation link; a failed insert skips the candidate
CreateRecommendation(w) ==
    /\ handler[w].pc = "link"
    /\ UNCHANGED <<served, overlap, call, ret>>
    /\ UNCHANGED <<videos, restaurants>>
    /\ LET row == RecommendationRow(Cur(w), handler[w].found, Cand(w))
       IN \/ /\ UNCHANGED recs
             /\ Set(w, SkipCandidate(w))
          \/ /\ ~UniqueViolation(row)
             /\ recs' = recs \cup {row}
             /\ Set(w, AfterCandidate(w)
                       @@ [done |-> Append(handler[w].done,
                                           [restaurant |-> handler[w].found,
                                            recommendation |-> row])])

---------------------------------------------------------------------------
(* routes/processing.js: the end of a video in each handler *)

SuccessUpdatesKeepError == [processed |-> TRUE]

\* Mark video as processed
SuccessUpdates == [processed |-> TRUE, processing_error |-> NoError]

\* what the catch block of each route writes to the video
FailureUpdates(op, message) ==
    IF op = "reprocess" THEN [processing_error |-> message]
    ELSE [processing_error |-> message, processed |-> FALSE]

\* whether the catch block of the route writes to the video at all
MarksFailure(op) == op \in {"single", "batch", "reprocess"}

\* the loop of batch and reprocess-failed after a video: next video or response
AfterVideo(w, res) ==
    IF handler[w].idx < Len(handler[w].pulled)
    THEN [pc |-> FirstStep(handler[w].op), idx |-> handler[w].idx + 1,
          results |-> res, parsed |-> "none"] @@ FlowLocals
    ELSE Responded([status |-> 200, total |-> Len(handler[w].pulled),
                    processed |-> res.processed, failed |-> res.failed,
                    errors |-> res.errors,
                    videos_processed |-> res.videos_processed])
         @@ [results |-> res]

Succeeded(w) ==
    LET res == handler[w].results
    IN [res EXCEPT !.processed = @ + 1,
                   !.videos_processed = Append(@, Cur(w).video_id)]

ErroredUnrecorded(w) ==
    LET res == handler[w].results
    IN [res EXCEPT !.failed = @ + 1]

Errored(w) ==
    LET res == handler[w].results
    IN [res EXCEPT !.failed = @ + 1,
                   !.errors = Append(@, [videoId |-> Cur(w).video_id,
                                         error |-> handler[w].err])]

MarkProcessed(w) ==
    /\ handler[w].pc = "mark"
    /\ UNCHANGED <<served, overlap, call, ret>>
    /\ UNCHANGED <<restaurants, recs>>
    /\ videos' = updateVideo(videos, Cur(w).video_id, SuccessUpdates)
    /\ CASE handler[w].op = "single" ->
              Set(w, Responded([status |-> 200,
                                recommendations |-> Len(handler[w].done)]))
         [] handler[w].op = "add" ->
              Set(w, Responded([status |-> 201,
                                recommendations |-> Len(handler[w].done)]))
         [] OTHER -> Set(w, AfterVideo(w, Succeeded(w)))

Catch(w) ==
    /\ handler[w].pc = "catch"
    /\ UNCHANGED <<served, overlap, call, ret>>
    /\ UNCHANGED <<restaurants, recs>>
    /\ IF MarksFailure(handler[w].op)
       THEN videos' = updateVideo(videos, Cur(w).video_id,
                                  FailureUpdates(handler[w].op, handler[w].err))
       ELSE UNCHANGED videos
    /\ IF handler[w].op \in {"single", "add"}
       THEN Set(w, Responded([status |-> 500, error |-> handler[w].err]))
       ELSE Set(w, AfterVideo(w, Errored(w)))

\* the response is sent and the handler returns
Close(w) ==
    /\ handler[w].pc = "responded"
    /\ UNCHANGED <<served, overlap, call, ret>>
    /\ UNCHANGED store
    /\ handler' = [handler EXCEPT ![w] = Idle]

---------------------------------------------------------------------------
(* Specifications *)

Step(w) ==
    \/ \E v \in VideoIds : StartSingle(w, v)
    \/ \E limit \in 1..MaxLimit : StartBatch(w, limit)
    \/ \E limit \in 1..MaxLimit : StartReprocess(w, limit)
    \/ ClearError(w)
    \/ AddBadUrl(w)
    \/ \E v \in VideoIds : StartAdd(w, v)
    \/ CreateVideo(w)
    \/ Acquire(w)
    \/ Extract(w)
    \/ FindRestaurant(w)
    \/ CreateRestaurant(w)
    \/ CreateRecommendation(w)
    \/ MarkProcessed(w)
    \/ Catch(w)
    \/ Close(w)

\* requests are served one at a time
SeqNext == Step("w1")

SeqSpec == Init /\ [][SeqNext]_vars

\* the store after a first request: one video, pending or failed
ConcInit ==
    /\ \E details \in VideoProfiles, error \in {NoError, "Failed to extract recommendations"} :
          videos = [v \in VideoIds |->
                       IF v = 1
                       THEN [NewRow(details, v) EXCEPT !.processing_error = error]
                       ELSE NoRow]
    /\ restaurants = <<>>
    /\ recs = {}
    /\ handler = [w \in Workers |-> Idle]
    /\ served = 1
    /\ overlap = TRUE
    /\ call = NoCall
    /\ ret = NoReturn

\* requests overlap: every await lets the other handler run
Next == \E w \in Workers : Step(w)

Spec == ConcInit /\ [][Next]_vars

---------------------------------------------------------------------------
(* The service functions called on their own *)

\* confidence scores the model can give, in hundredths; NoNumber: no field
ConfidenceSamples == {NoNumber, 0, MinConfidence - 1, MinConfidence, 90}

NameSamples == {Pho, BlankText}

ParsedSamples ==
    {JsonNull, JsonArray, JsonObject(FALSE, <<>>)}
    \cup UNION {{JsonObject(TRUE,
                    [i \in 1..n |-> RawCandidate(k[i][1], Rome, DishAt(i), k[i][2], Null)]) :
                    k \in [1..n -> NameSamples \X ConfidenceSamples]} :
                n \in 1..MaxCands}

DurationSamples ==
    {NoDuration, Garbage, Duration(-1, -1, 0), PT45S,
     Duration(-1, -1, ShortsSeconds), Duration(-1, 1, 1), Duration(-1, 1, 59),
     PT2M, Duration(-1, 2, 1), PT3M, Duration(1, -1, -1)}

TitleSamples ==
    {Pho, <<"M", "u", "s", "i", "c">>,
     <<"P", "h", "o", " ", "s", "h", "o", "r", "t", "s">>}

\* what fetchTranscript gives: a failure, no entries, an entry without text,
\* an entry without offset, well-formed entries
CaptionSamples ==
    {Throw("Transcript is disabled"),
     Ok(<<>>),
     Ok(<<[text |-> Null, offset |-> 7000]>>),
     Ok(<<[text |-> Pho9, offset |-> NoNumber]>>),
     Ok(<<[text |-> Pho9, offset |-> 7000]>>),
     Ok(<<[text |-> ShortText, offset |-> 1000], [text |-> Pho9, offset |-> 7000]>>)}

RecommendationSamples ==
    UNION {{validateAndFormatRecommendations(JsonObject(TRUE,
               [i \in 1..n |-> RawCandidate(k[i], Null, DishAt(i), 90, Null)])) :
               k \in [1..n -> {Pho, Rome}]} :
           n \in 0..MaxCands}

\* caption text of the primary source around the usability threshold
TranscriptPrimarySamples ==
    {Fail, EmptyText, ShortText, Str(MinTranscriptLen, "x"),
     <<" ">> \o Str(MinTranscriptLen, "x") \o <<" ">>, LongText}

TranscriptResponseSamples ==
    {Fail, Null, EmptyText, BlankText, ShortText, Str(MinTranscriptLen, "x"), LongText}

ObjectSamples ==
    {JsonObject(FALSE, <<>>), JsonObject(TRUE, <<>>),
     JsonObject(TRUE, <<RawCandidate(Pho, Rome, Carbonara, 90, Null)>>)}

CompletionSamples ==
    {[kind |-> "error"], [kind |-> "nobrace"], [kind |-> "badspan"]}
    \cup {[kind |-> "json", value |-> v] : v \in {JsonNull, JsonArray} \cup ObjectSamples}
    \cup {[kind |-> "wrapped", value |-> v] : v \in ObjectSamples}

Roma == <<"r", "o", "m", "a">>
PhoRoma == <<"P", "h", "o", " ", "r", "o", "m", "a">>
Good == <<"g", "o", "o", "d">>

CaptionTexts == {Pho9, Roma, toLowerCase(PhoRoma), ShortText}

TimedCaptions ==
    UNION {{[i \in 1..n |-> [text |-> t[i], offset |-> 7000 * i]] :
               t \in [1..n -> CaptionTexts]} :
           n \in 1..2}

\* the rows of the restaurants table and the candidates resolved against it
TableSamples ==
    {<<>>, <<[name |-> Pho, city |-> Rome]>>, <<[name |-> Pho, city |-> Null]>>}

ResolveKeys == {[name |-> n, location |-> l] : n \in {Pho, Pho9}, l \in {Rome, Null}}

Calls ==
    {[fn |-> "validateAndFormatRecommendations", parsed |-> x] : x \in ParsedSamples}
    \cup {[fn |-> "getVideoTranscript", primary |-> p, response |-> r] :
              p \in TranscriptPrimarySamples, r \in TranscriptResponseSamples}
    \cup {[fn |-> "extractRestaurantRecommendations", completion |-> c] :
              c \in CompletionSamples}
    \cup {[fn |-> "findRestaurantTimestamp", transcriptArray |-> t,
           restaurantName |-> n, context |-> c] :
              t \in TimedCaptions, n \in {Pho, PhoRoma}, c \in {Null, Roma, Good}}
    \cup {[fn |-> "resolveRecommendations", table |-> t, recommendations |-> <<a, b>>] :
              t \in TableSamples, a \in ResolveKeys, b \in ResolveKeys}
    \cup {[fn |-> "isVideoSuitableForProcessing",
           video |-> [duration |-> d, title |-> t]] :
              d \in DurationSamples, t \in TitleSamples}
    \cup {[fn |-> "enhanceRecommendationsWithTimestamps",
           fetched |-> c, aiRecommendations |-> l] :
              c \in CaptionSamples, l \in RecommendationSamples}

FnInit ==
    /\ videos = [v \in VideoIds |-> NoRow]
    /\ restaurants = <<>>
    /\ recs = {}
    /\ handler = [w \in Workers |-> Idle]
    /\ served = 0
    /\ overlap = FALSE
    /\ call \in Calls
    /\ ret = NoReturn

Return(value) ==
    /\ ~ret.done
    /\ ret' = [done |-> TRUE, value |-> value]
    /\ UNCHANGED <<videos, restaurants, recs, handler, served, overlap, call>>

CallValidate ==
    /\ call.fn = "validateAndFormatRecommendations"
    /\ Return(validateAndFormatRecommendations(call.parsed))

CallSuitable ==
    /\ call.fn = "isVideoSuitableForProcessing"
    /\ Return(isVideoSuitableForProcessing(call.video))

CallEnhance ==
    /\ call.fn = "enhanceRecommendationsWithTimestamps"
    /\ Return(enhanceRecommendationsWithTimestamps(call.fetched, call.aiRecommendations))

CallTranscript ==
    /\ call.fn = "getVideoTranscript"
    /\ Return(getVideoTranscript(call.primary, call.response))

CallExtract ==
    /\ call.fn = "extractRestaurantRecommendations"
    /\ Return(extractRestaurantRecommendations(call.completion))

CallTimestamp ==
    /\ call.fn = "findRestaurantTimestamp"
    /\ Return(findRestaurantTimestamp(call.transcriptArray, call.restaurantName,
                                      call.context))

CallResolve ==
    /\ call.fn = "resolveRecommendations"
    /\ Return(resolveRecommendations(call.table, call.recommendations))

FnNext ==
    \/ CallValidate
    \/ CallSuitable
    \/ CallEnhance
    \/ CallTranscript
    \/ CallExtract
    \/ CallTimestamp
    \/ CallResolve

FnSpec == FnInit /\ [][FnNext]_vars

---------------------------------------------------------------------------
(* Properties of the processing handlers *)

\* what processVideoRecommendations throws before the persistence loop
FlowErrors == {"No transcript or description available for processing",
               "Failed to extract recommendations"}

InFlow(w) == handler[w].pc \notin {"idle", "responded", "create_video"}

\* C1: whenever the per-video flow raises (transcript acquisition, the
\* empty-content check or extraction), the operation that invoked it (single,
\* batch, reprocess-failed, add-and-process) leaves the video with
\* processed = false and processingError set to the error.
C1_FailureRecorded ==
    [][\A w \in Workers :
          (handler[w].pc = "catch" /\ handler[w].err \in FlowErrors
              /\ handler'[w].pc # "catch")
          => LET v == Cur(w).video_id
             IN /\ ~videos'[v].processed
                /\ videos'[v].processing_error = handler[w].err]_vars

\* C2: in every reachable state, whatever the order and interleaving of the
\* processing operations, a video with processed = true has no processingError.
C2_ProcessedHasNoError ==
    \A v \in Rows : videos[v].processed => videos[v].processing_error = NoError

Occurrences(seq, x) == Cardinality({i \in 1..Len(seq) : seq[i] = x})

ErrorIds(errors) == [i \in 1..Len(errors) |-> errors[i].videoId]

NewestPassing(limit) ==
    Snapshots(Limit(SelectSeq(OrderByCreated({v \in Rows : Pending(v)}, TRUE),
                              DurationOk),
                    limit))

\* C7: the batch pull with limit N returns the N newest pending videos that
\* pass the duration filter, or all of them when there are fewer.
C7_PullNewestPassing ==
    \A limit \in 1..MaxLimit : getUnprocessedVideos(limit) = NewestPassing(limit)

\* C8: while candidates are resolved one after the other in one run, a second
\* candidate with the same name and city resolves to the same restaurant id,
\* and no second restaurant row is created for it.
C8_SameKeySameRestaurant ==
    /\ \A w \in Workers : \A a, b \in handler[w].resolved :
          (a.name = b.name /\ a.city = b.city) => a.id = b.id
    /\ \A i, j \in RestaurantIds :
          (restaurants[i].name = restaurants[j].name
              /\ restaurants[i].city = restaurants[j].city) => i = j

\* the second candidate has the key of the first, which was persisted, and
\* has resolved to the single restaurant row
C8_Witness ==
    \E w \in Workers :
       /\ handler[w].pc = "link"
       /\ handler[w].ri = 2
       /\ handler[w].cands[1].name = handler[w].cands[2].name
       /\ handler[w].cands[1].location = handler[w].cands[2].location
       /\ Len(handler[w].done) = 1
       /\ handler[w].done[1].restaurant = handler[w].found
       /\ Len(restaurants) = 1

\* C9: there is at most one edge per (video, restaurant) pair; when a video
\* yields the same restaurant twice the stored edge keeps the data of the
\* first candidate and the later write is skipped.
C9_OneEdgePerPair ==
    /\ [](\A e1, e2 \in recs :
             (e1.video_id = e2.video_id /\ e1.restaurant_id = e2.restaurant_id)
             => e1 = e2)
    /\ [][\A e \in recs : e \in recs']_vars

\* the second candidate is about to be linked to the restaurant of the first,
\* whose edge is stored with the first candidate's dish
C9_Witness ==
    \E w \in Workers :
       /\ handler[w].pc = "link"
       /\ handler[w].ri = 2
       /\ UniqueViolation(RecommendationRow(Cur(w), handler[w].found, Cand(w)))
       /\ \E e \in recs :
             /\ e.video_id = Cur(w).video_id
             /\ e.restaurant_id = handler[w].found
             /\ e.dish_mentioned = Carbonara
       /\ Cand(w).dishMentioned = Gnocchi

\* C10: an edge is inserted only after its restaurant exists: every edge
\* references an existing restaurant (and an existing video).
C10_EdgeHasRestaurant ==
    \A e \in recs :
       /\ e.restaurant_id \in RestaurantIds
       /\ e.video_id \in Rows

\* an edge to a restaurant created by a flow while another flow is running
C10_Witness ==
    /\ \E e \in recs : e.restaurant_id = 1
    /\ \A w \in Workers : InFlow(w)

NoContentError == "No transcript or description available for processing"

\* the acquisition step of handler w ran on a video without stored transcript
\* and stored none: both transcript sources failed
AcquisitionFailed(w) ==
    /\ handler[w].pc = "acquire"
    /\ handler'[w].pc # "acquire"
    /\ ~Truthy(Cur(w).transcript)
    /\ videos' = videos

\* C11: when a video has no stored transcript, both transcript sources fail
\* and the description is empty or blank, the flow raises the no-content error
\* without calling the extractor, and the video ends with processed = false and
\* processingError set, no restaurant or edge being created.
C11_NoContentFailsVideo ==
    [][\A w \in Workers :
          /\ (AcquisitionFailed(w) /\ Blank(Cur(w).description))
             => (/\ handler'[w].pc = "catch"
                 /\ handler'[w].err = NoContentError
                 /\ UNCHANGED store)
          /\ (handler[w].pc = "catch" /\ handler[w].err = NoContentError
                 /\ handler'[w].pc # "catch")
             => (/\ ~videos'[Cur(w).video_id].processed
                 /\ videos'[Cur(w).video_id].processing_error = NoContentError
                 /\ UNCHANGED <<restaurants, recs>>)]_vars

\* C12: when a video has no stored transcript and transcript acquisition
\* fails, the flow does not fail at that step: it goes on with the video's
\* description as the text (only a blank description then raises no-content).
C12_DescriptionFallback ==
    [][\A w \in Workers :
          AcquisitionFailed(w)
          => IF Blank(Cur(w).description)
             THEN handler'[w].pc = "catch" /\ handler'[w].err = NoContentError
             ELSE handler'[w].pc = "extract"
                  /\ handler'[w].text = Cur(w).description]_vars

\* a flow is about to extract from the description of a video that has no
\* transcript
C12_Witness ==
    \E w \in Workers :
       /\ handler[w].pc = "extract"
       /\ ~Truthy(Cur(w).transcript)
       /\ ~Truthy(videos[Cur(w).video_id].transcript)
       /\ handler[w].text = Cur(w).description
       /\ handler[w].text = <<"a">>

Returned(candidate) ==
    \E j \in 1..Len(ret.value) : ret.value[j].dishMentioned = candidate.dishMentioned

\* C13: every candidate of the model output whose confidence is present and
\* in [0, 0.6) is absent from the list extract returns; a candidate without
\* confidence passes and is returned with confidence 0.8.
C13_LowConfidenceDropped ==
    (/\ call.fn = "validateAndFormatRecommendations"
     /\ ret.done
     /\ call.parsed.type = "object"
     /\ call.parsed.isArray)
    => \A i \in 1..Len(call.parsed.restaurants) :
          LET c == call.parsed.restaurants[i]
          IN /\ (c.confidenceScore \in 0..(MinConfidence - 1)) => ~Returned(c)
             /\ (c.confidenceScore = NoNumber /\ Len(trim(c.name)) > 0)
                => \E j \in 1..Len(ret.value) :
                      /\ ret.value[j].dishMentioned = c.dishMentioned
                      /\ ret.value[j].confidenceScore = DefaultConfidence

\* C14: for every duration d in seconds the suitability filter returns false
\* when d <= 120, and true when d > 120 and the title has no denylisted keyword.
C14_SuitableAbove120 ==
    (call.fn = "isVideoSuitableForProcessing" /\ ret.done)
    => LET d == youtubeParseDuration(call.video.duration)
       IN /\ (d <= 120) => (ret.value = FALSE)
          /\ (d > 120 /\ ~hasNonFoodKeyword(toLowerCase(call.video.title)))
             => (ret.value = TRUE)

\* C15: the suitability filter accepts a video whose duration is unknown or
\* zero (missing or unparseable) when its title has no denylisted keyword.
C15_UnknownDurationAccepted ==
    (/\ call.fn = "isVideoSuitableForProcessing"
     /\ ret.done
     /\ youtubeParseDuration(call.video.duration) = 0
     /\ ~hasNonFoodKeyword(toLowerCase(call.video.title)))
    => (ret.value = TRUE)

\* the stored duration of the i-th video handler w pulled
PulledDuration(w, i) == videos[handler[w].pulled[i].video_id].duration

\* C16 (as stated): a stored video whose duration parses to 120 seconds or
\* less is never returned by the unprocessed-videos pull, so never processed
\* by a batch.
C16_ShortNeverPulled ==
    /\ \A limit \in 1..MaxLimit : \A i \in 1..Len(getUnprocessedVideos(limit)) :
          parseDuration(videos[getUnprocessedVideos(limit)[i].video_id].duration)
             > MinDurationSeconds
    /\ \A w \in Workers :
          handler[w].op = "batch"
          => \A i \in 1..Len(handler[w].pulled) :
                parseDuration(PulledDuration(w, i)) > MinDurationSeconds

\* C16 (amended): a stored video that has a duration, parsing to 120 seconds
\* or less, is never returned by the unprocessed-videos pull, so never
\* processed by a batch; a video without duration is let through.
C16_ShortNeverPulledIfKnown ==
    /\ \A limit \in 1..MaxLimit : \A i \in 1..Len(getUnprocessedVideos(limit)) :
          LET duration == videos[getUnprocessedVideos(limit)[i].video_id].duration
          IN duration # NoDuration => parseDuration(duration) > MinDurationSeconds
    /\ \A w \in Workers :
          handler[w].op = "batch"
          => \A i \in 1..Len(handler[w].pulled) :
                PulledDuration(w, i) # NoDuration
                => parseDuration(PulledDuration(w, i)) > MinDurationSeconds

\* a batch with limit 2 has processed the long video and left the pending
\* 45-second video alone
C16_Witness ==
    /\ \E w \in Workers :
          /\ handler[w].pc = "responded"
          /\ handler[w].op = "batch"
          /\ handler[w].arg = 2
          /\ handler[w].resp.total = 1
    /\ \E v \in Rows : videos[v].duration = PT45S /\ Pending(v)

\* the entries cannot be read: reading entry.text throws
Unreadable(fetched) ==
    \/ ~fetched.ok
    \/ fetched.value = <<>>
    \/ \E i \in 1..Len(fetched.value) : fetched.value[i].text = Null

Malformed(fetched) ==
    \/ Unreadable(fetched)
    \/ \E i \in 1..Len(fetched.value) : fetched.value[i].offset = NoNumber

C18_ExistingRowUntouched ==
    [][/\ \A i \in RestaurantIds :
             i \in DOMAIN restaurants' /\ restaurants'[i] = restaurants[i]
       /\ \A w \in Workers :
             (handler[w].pc = "find" /\ handler'[w].pc = "link")
             => (/\ handler'[w].found \in RestaurantIds
                 /\ Matches(handler'[w].found, Cand(w).name, Cand(w).location)
                 /\ UNCHANGED restaurants)]_vars

\* a candidate without city has resolved to a row that has one
C18_Witness ==
    \E w \in Workers :
       /\ handler[w].pc = "link"
       /\ handler[w].found \in RestaurantIds
       /\ Cand(w).location = Null
       /\ restaurants[handler[w].found].city = Rome

\* C19: a video with processed = false and an error is never pulled by a
\* batch; once its error is cleared while processed stays false it is pending
\* again and the pull returns it.
C19_FailedSkippedUntilCleared ==
    /\ [](\A limit \in 1..MaxLimit : \A i \in 1..Len(getUnprocessedVideos(limit)) :
             LET v == getUnprocessedVideos(limit)[i].video_id
             IN ~videos[v].processed /\ videos[v].processing_error = NoError)
    /\ [][\A w \in Workers :
             /\ (handler[w].pc = "idle" /\ handler'[w].op = "batch")
                => \A i \in 1..Len(handler'[w].pulled) :
                      videos[handler'[w].pulled[i].video_id].processing_error = NoError
             /\ (handler[w].pc = "clear" /\ handler'[w].pc # "clear")
                => LET v == Cur(w).video_id
                   IN /\ videos'[v].processing_error = NoError
                      /\ videos'[v].processed = videos[v].processed
                      /\ (~videos[v].processed /\ DurationOk(v))
                         => \E i \in 1..Len(getUnprocessedVideos(MaxVideos)') :
                               getUnprocessedVideos(MaxVideos)'[i].video_id = v]_vars

\* a batch has pulled the video whose error a running reprocess has cleared
C19_Witness ==
    \E w, o \in Workers :
       /\ handler[w].op = "reprocess"
       /\ handler[w].pc = "acquire"
       /\ handler[o].op = "batch"
       /\ handler[o].pc = "acquire"
       /\ Cur(o).video_id = Cur(w).video_id

\* C20: with two flows interleaved, both can look up the same new restaurant,
\* find no match and each create a row: a flow that found no match inserts its
\* row without looking again, so two rows of identical name and city arise.
C20_CreateWithoutRecheck ==
    [][\A w \in Workers :
          (handler[w].pc = "create" /\ handler'[w].pc = "link")
          => (/\ restaurants' = Append(restaurants, RestaurantRow(Cand(w)))
              /\ handler'[w].found = Len(restaurants'))]_vars

\* two rows of identical name and city, one created by each flow
C20_Witness ==
    \E w, o \in Workers : \E a \in handler[w].resolved, b \in handler[o].resolved :
       /\ w # o
       /\ a.name = b.name
       /\ a.city = b.city
       /\ a.id # b.id
       /\ restaurants[a.id] = restaurants[b.id]
       /\ restaurants[a.id] = [name |-> a.name, city |-> a.city]

---------------------------------------------------------------------------
(* Batch progress, overlap after success, status report *)

\* a pending video the duration filter lets through because it is long enough
LongPending(v) ==
    /\ Pending(v)
    /\ videos[v].duration # NoDuration
    /\ parseDuration(videos[v].duration) > MinDurationSeconds

\* C21: with batches of a fixed size N >= 1 repeated and no video added or
\* deleted, every pending video longer than 120 seconds is eventually
\* attempted and leaves the pending state.  A batch attempts only what its
\* pull returns, and a batch whose pull is empty answers at once and changes
\* nothing, so progress needs: a batch that starts while such a video is
\* pending does not answer with an empty pull.
C21_BatchReachesLongPending ==
    [][\A w \in Workers :
          (/\ handler[w].pc = "idle"
           /\ handler'[w].op = "batch"
           /\ \E v \in Rows : LongPending(v))
          => handler'[w].pc # "responded"]_vars

\* C22: once a video is processed, no step of any processing operation, an
\* overlapping one that started before the mark included, sets processed back
\* to false or sets a processing error on it.
C22_ProcessedIsFinal ==
    [][\A v \in VideoIds :
          (videos[v] # NoRow /\ videos[v].processed)
          => (/\ videos'[v].processed
              /\ videos'[v].processing_error = NoError)]_vars

\* C30: the status report partitions the stored videos: processed counts the
\* videos with processed = true, failed those unprocessed with an error,
\* pending those unprocessed without an error, and the three add up to total.
C30_StatusPartitions ==
    /\ statusReport.processed = Cardinality({v \in Rows : videos[v].processed})
    /\ statusReport.failed = Cardinality({v \in Rows : Failed(v)})
    /\ statusReport.pending = Cardinality({v \in Rows : Pending(v)})
    /\ statusReport.processed + statusReport.failed + statusReport.pending
          = statusReport.total

---------------------------------------------------------------------------
(* Transcript acquisition: provider order and fallback *)

TranscriptReturned == call.fn = "getVideoTranscript" /\ ret.done

\* the primary provider raised or gave 50 characters or less after trimming
PrimaryFailed(primary) ==
    primary = Fail \/ Len(trim(primary)) <= MinTranscriptLen

\* C23: acquisition tries the primary provider first and calls the secondary
\* one only when the primary raised or gave 50 characters or less after
\* trimming; it raises only when both failed, and the error it raises names
\* the failure reason of each.
C23_PrimaryThenSecondary ==
    TranscriptReturned
    => /\ ret.value.calls[1] = "YouTube"
       /\ (\E i \in 1..Len(ret.value.calls) : ret.value.calls[i] = "RapidAPI")
             <=> PrimaryFailed(call.primary)
       /\ ret.value.calls \in {<<"YouTube">>, <<"YouTube", "RapidAPI">>}
       /\ (~PrimaryFailed(call.primary))
             => (ret.value.ok /\ ret.value.value = call.primary)
       /\ (~ret.value.ok)
          => /\ PrimaryFailed(call.primary)
             /\ ~getRapidApiTranscript(call.response).ok
             /\ ret.value.error.youTube = getYouTubeTranscript(call.primary).error
             /\ ret.value.error.rapidApi = getRapidApiTranscript(call.response).error

\* a primary text of exactly 50 characters and a secondary response without
\* transcript: both providers called, the error names both reasons
C23_Witness ==
    /\ TranscriptReturned
    /\ call.primary = Str(MinTranscriptLen, "x")
    /\ call.response = Null
    /\ ~ret.value.ok
    /\ ret.value.calls = <<"YouTube", "RapidAPI">>
    /\ ret.value.error.youTube = "YouTube transcript too short"
    /\ ret.value.error.rapidApi = "No transcript data in RapidAPI response"

\* C24: the text of the secondary provider is accepted only if it is longer
\* than 50 characters after trimming; a shorter one counts as a failure.
C24_SecondaryLengthChecked ==
    (TranscriptReturned /\ PrimaryFailed(call.primary) /\ ret.value.ok)
    => Len(trim(ret.value.value)) > MinTranscriptLen

---------------------------------------------------------------------------
(* Extraction: unparseable completions *)

\* C25: a completion that parses neither as it is nor from its brace span
\* makes extract raise: it returns no candidates, and it has called the model
\* endpoint exactly once.
C25_UnparseableRaises ==
    (/\ call.fn = "extractRestaurantRecommendations"
     /\ ret.done
     /\ call.completion.kind \in {"badspan", "nobrace"})
    => /\ ~ret.value.ok
       /\ "value" \notin DOMAIN ret.value
       /\ ret.value.error = "Failed to extract recommendations"
       /\ ret.value.requests = 1

\* extract has returned for a completion whose brace span does not parse
C25_Witness ==
    /\ call.fn = "extractRestaurantRecommendations"
    /\ ret.done
    /\ call.completion.kind = "badspan"
    /\ ~ret.value.ok
    /\ ret.value.requests = 1

---------------------------------------------------------------------------
(* Stored transcripts *)

\* C26: once a video has a non-empty stored transcript, no later processing
\* attempt on it calls the transcript acquirer or changes the stored
\* transcript.  An attempt calls the acquirer exactly when the row it holds
\* has no transcript, so: an attempt that begins on a video whose stored
\* transcript is non-empty holds a row with that transcript.
C26_StoredTranscriptReused ==
    [][\A w \in Workers :
          (handler'[w].pc = "acquire" /\ handler[w].pc # "acquire")
          => LET video == handler'[w].pulled[handler'[w].idx]
             IN Truthy(videos'[video.video_id].transcript)
                => video.transcript = videos'[video.video_id].transcript]_vars

---------------------------------------------------------------------------
(* Timestamp reconciliation: the acceptance threshold *)

\* the distinct search terms the window text contains
TermsIn(windowText, terms) ==
    {terms[k] : k \in {j \in 1..Len(terms) : includes(windowText, terms[j])}}

\* C27: reconciliation sets mentionedAt only when some 5-entry caption window
\* contains the full restaurant name or at least two distinct search terms; a
\* window matching one distinct name token or context word leaves it null.
C27_TwoDistinctTermsNeeded ==
    (/\ call.fn = "findRestaurantTimestamp"
     /\ ret.done
     /\ ret.value # NoNumber)
    => \E i \in 1..Len(call.transcriptArray) :
          LET windowText == WindowText(call.transcriptArray, i)
              terms == SearchTerms(call.restaurantName, call.context)
          IN \/ includes(windowText, toLowerCase(call.restaurantName))
             \/ Cardinality(TermsIn(windowText, terms)) >= 2

---------------------------------------------------------------------------
(* Restaurant resolution: order of the candidates *)

\* C28: the restaurant rows that resolving two candidates of the same name
\* produces do not depend on the order of the two: with one candidate that
\* has a location hint and one that has none, either order leaves the same
\* number of rows.
C28_ResolveOrderIndependent ==
    (/\ call.fn = "resolveRecommendations"
     /\ ret.done
     /\ call.recommendations[1].name = call.recommendations[2].name)
    => Len(ret.value)
          = Len(resolveRecommendations(call.table,
                                       <<call.recommendations[2],
                                         call.recommendations[1]>>))

---------------------------------------------------------------------------
(* Extraction: a parsed completion without restaurants array *)

NoRestaurantsArray == {"null", "array", "object"}

====
